---------------------------- MODULE Spec2Model ----------------------------
(***************************************************************************)
(* Model of src/project.py: class PriceMachine, an aggregate table of      *)
(* price records built from the CSV files of a directory.                  *)
(*                                                                         *)
(* Text is modelled as a tuple of one-character strings, so that           *)
(* str.lower, str.endswith, the `in` test and the search of find_text are  *)
(* computed character by character.  The Cyrillic column names of main()   *)
(* are written in Latin transliteration (nazvanie, cena, ves, fajl, ...).  *)
(*                                                                         *)
(* The library calls (read_csv, concat, the Series arithmetic, round,      *)
(* sort_values, str.contains, .loc) are modelled by the behaviour of       *)
(* pandas 2.x / numpy on the values that the model draws.                  *)
(***************************************************************************)
EXTENDS Integers, Sequences, FiniteSets

VARIABLES
    world,           \* the name of the environment the program runs in
    agregate_price,  \* self.agregate_price, the aggregate DataFrame
    call,            \* the last method called, with its arguments
    result,          \* what the call returned (find_text) or wrote (export_to_html)
    raised           \* the exception that left the call uncaught, or "none"

vars == <<world, agregate_price, call, result, raised>>

-----------------------------------------------------------------------------
(* Bounds of the model.                                                     *)

MaxRows == 2        \* rows the aggregate may hold
MaxFiles == 2       \* files in a folder
MaxText == 2        \* length of a search text

-----------------------------------------------------------------------------
(* Text.                                                                    *)

\* The characters in use, in code point order.
CharOrder ==
    << "-", ".", "0", "1", "2", "3", "5", "8",
       "A", "B", "C", "E", "I", "M", "P", "R", "S", "V",
       "a", "b", "c", "e", "i", "k", "l", "m", "p", "r", "s", "t", "v", "x" >>

Ord(c) == CHOOSE i \in 1..Len(CharOrder) : CharOrder[i] = c

UpperCase == << "A", "B", "C", "E", "I", "M", "P", "R", "S", "V" >>
LowerCase == << "a", "b", "c", "e", "i", "m", "p", "r", "s", "v" >>

\* str.lower on one character
LowerChar(c) ==
    IF \E i \in 1..Len(UpperCase) : UpperCase[i] = c
    THEN LowerCase[CHOOSE i \in 1..Len(UpperCase) : UpperCase[i] = c]
    ELSE c

\* str.lower
Lower(s) == [i \in 1..Len(s) |-> LowerChar(s[i])]

\* s.endswith(suffix), case-sensitive
EndsWith(s, suffix) ==
    /\ Len(suffix) <= Len(s)
    /\ \A i \in 1..Len(suffix) : s[Len(s) - Len(suffix) + i] = suffix[i]

\* sub in s, case-sensitive
Contains(s, sub) ==
    \E p \in 0..(Len(s) - Len(sub)) :
        \A i \in 1..Len(sub) : s[p + i] = sub[i]

\* s < t for Python str: lexicographic by code point
StrLess(s, t) ==
    \E k \in 1..(Len(t)) :
        /\ k <= Len(s) + 1
        /\ \A i \in 1..(k - 1) : s[i] = t[i]
        /\ \/ k = Len(s) + 1
           \/ (k <= Len(s) /\ Ord(s[k]) < Ord(t[k]))

\* re.search(pattern, s, re.IGNORECASE) for a pattern of literal characters
\* and the metacharacter "." (any character); the other metacharacters are
\* not in CharOrder.
RegexSearchI(pattern, s) ==
    \E p \in 0..(Len(s) - Len(pattern)) :
        \A i \in 1..Len(pattern) :
            \/ pattern[i] = "."
            \/ LowerChar(pattern[i]) = LowerChar(s[p + i])

-----------------------------------------------------------------------------
(* Cells of a DataFrame: NaN, a number, +-inf, or a str.  Numbers are       *)
(* held in thousandths, which represents exactly the quotients the model    *)
(* draws and every value rounded to Decimals places.                        *)

Decimals == 2                   \* .round(2)
Scale == 10 ^ (Decimals + 1)

NaN == [t |-> "nan", n |-> 0, s |-> << >>]
Num(k) == [t |-> "num", n |-> k, s |-> << >>]
Inf(sign) == [t |-> "inf", n |-> sign, s |-> << >>]
Str(txt) == [t |-> "str", n |-> 0, s |-> txt]

IsNull(c) == c.t = "nan"             \* pd.isna
IsStr(c) == c.t = "str"
IsNum(c) == c.t = "num"


-----------------------------------------------------------------------------
(* The configuration main() passes to PriceMachine.                         *)

\* headers: raw column name -> canonical column name
headers ==
    [ nazvanie |-> "nazvanie", produkt |-> "nazvanie", tovar |-> "nazvanie",
      naimenovanie |-> "nazvanie",
      cena |-> "cena", roznica |-> "cena",
      fasovka |-> "ves", massa |-> "ves", ves |-> "ves" ]

\* colunm_names: field -> canonical column name
column_names ==
    [ name |-> "nazvanie", price |-> "cena", weight |-> "ves",
      file |-> "fajl", price_per_kg |-> "cena za kg." ]

Fields == << "name", "price", "weight", "file", "price_per_kg" >>

-----------------------------------------------------------------------------
(* DataFrames.  A frame has its column labels in order, the name of its     *)
(* index, and its rows in order; a row carries its index label and one      *)
(* cell per column.                                                         *)

Range(q) == {q[i] : i \in 1..Len(q)}

Frame(cols, name, rws) == [columns |-> cols, index_name |-> name, rows |-> rws]

\* pd.DataFrame()
EmptyFrame == Frame(<< >>, "", << >>)

\* the column `col` of a frame, as the sequence of its cells
Column(df, col) == [i \in 1..Len(df.rows) |-> df.rows[i].v[col]]

-----------------------------------------------------------------------------
(* pd.read_csv: the cells of a column are numbers when every non-empty      *)
(* cell of the column reads as a number, and str otherwise; an empty cell   *)
(* is NaN.                                                                  *)

DigitChars == << "0", "1", "2", "3", "5", "8" >>
DigitVals == << 0, 1, 2, 3, 5, 8 >>

IsDigit(c) == \E i \in 1..Len(DigitChars) : DigitChars[i] = c
DigitVal(c) == DigitVals[CHOOSE i \in 1..Len(DigitChars) : DigitChars[i] = c]

RECURSIVE DigitsVal(_)
DigitsVal(s) ==
    IF s = << >> THEN 0
    ELSE 10 * DigitsVal(SubSeq(s, 1, Len(s) - 1)) + DigitVal(s[Len(s)])

\* position of the decimal point, or Len(s) + 1
PointAt(s) ==
    IF \E i \in 1..Len(s) : s[i] = "."
    THEN CHOOSE i \in 1..Len(s) : s[i] = "." /\ \A j \in 1..(i - 1) : s[j] # "."
    ELSE Len(s) + 1

\* an unsigned decimal literal with at most Decimals + 1 fraction digits
IsUnsignedText(s) ==
    LET p == PointAt(s) IN
    /\ \A i \in 1..Len(s) : i # p => IsDigit(s[i])
    /\ Len(s) - p <= Decimals + 1
    /\ \E i \in 1..Len(s) : IsDigit(s[i])

IsNumericText(s) ==
    /\ s # << >>
    /\ IF s[1] = "-" THEN IsUnsignedText(Tail(s)) ELSE IsUnsignedText(s)

RECURSIVE Pow10(_)
Pow10(k) == IF k = 0 THEN 1 ELSE 10 * Pow10(k - 1)

\* the value of an unsigned literal, in thousandths
UnsignedVal(s) ==
    LET p == PointAt(s)
        whole == SubSeq(s, 1, p - 1)
        frac == SubSeq(s, p + 1, Len(s))
    IN  DigitsVal(whole) * Scale
          + DigitsVal(frac) * Pow10(Decimals + 1 - Len(frac))

ParseNumber(s) ==
    IF s[1] = "-" THEN 0 - UnsignedVal(Tail(s)) ELSE UnsignedVal(s)

\* the cells of raw column j of file f
ParseColumn(f, j) ==
    LET raw == [i \in 1..Len(f.rows) |-> f.rows[i][j]]
        numeric == \A i \in 1..Len(raw) : raw[i] = << >> \/ IsNumericText(raw[i])
    IN  [i \in 1..Len(raw) |->
            IF raw[i] = << >> THEN NaN
            ELSE IF numeric THEN Num(ParseNumber(raw[i]))
            ELSE Str(raw[i])]

\* __read_csv: the frame of the file, or an empty frame when reading fails
\* (FileNotFoundError, EmptyDataError or any other exception is logged)
ReadCsvFails(f) == f.status # "ok"

ReadCsv(f) ==
    IF ReadCsvFails(f) THEN EmptyFrame
    ELSE Frame(f.columns, "",
               [i \in 1..Len(f.rows) |->
                   [idx |-> i - 1,
                    v |-> [c \in Range(f.columns) |->
                             ParseColumn(f, CHOOSE j \in 1..Len(f.columns) :
                                               f.columns[j] = c)[i]]]])

-----------------------------------------------------------------------------
(* _add_data_to_base                                                        *)

\* HeaderMap without the membership test: an unknown column keeps its name
HeaderMap_KeepAll(col) == IF col \in DOMAIN headers THEN headers[col] ELSE col

\* the canonical name of a raw column, or "" when headers has no such key
\* (`if col in self.headers`: an exact, case-sensitive match)
HeaderMap(col) == IF col \in DOMAIN headers THEN headers[col] ELSE ""

\* the columns of temp_df after the loop over df.columns, in the order in
\* which they were first assigned
RECURSIVE TempColumns(_)
TempColumns(cols) ==
    IF cols = << >> THEN << >>
    ELSE LET front == TempColumns(SubSeq(cols, 1, Len(cols) - 1))
             canon == HeaderMap(cols[Len(cols)])
         IN  IF canon = "" \/ canon \in Range(front) THEN front
             ELSE Append(front, canon)

\* the raw column whose cells temp_df[canon] holds after the loop: the last
\* one assigned
TempSource(cols, canon) ==
    cols[CHOOSE j \in 1..Len(cols) :
            /\ HeaderMap(cols[j]) = canon
            /\ \A k \in (j + 1)..Len(cols) : HeaderMap(cols[k]) # canon]

\* TempFrame built from the filename first: one row even when no column of
\* df is mapped
TempFrame_AlwaysOneRow(df, filename) ==
    LET mapped == TempColumns(df.columns)
        fcol == column_names["file"]
        cols == IF fcol \in Range(mapped) THEN mapped ELSE Append(mapped, fcol)
        n == IF mapped = << >> THEN 1 ELSE Len(df.rows)
    IN  Frame(cols, "",
              [i \in 1..n |->
                  [idx |-> i - 1,
                   v |-> [c \in Range(cols) |->
                            IF c = fcol THEN Str(filename)
                            ELSE df.rows[i].v[TempSource(df.columns, c)]]]])

\* temp_df once the file column is set.  The first column assigned gives
\* temp_df its index; with no column assigned the index is empty, and the
\* scalar filename is broadcast over no rows.
TempFrame(df, filename) ==
    LET mapped == TempColumns(df.columns)
        fcol == column_names["file"]
        cols == IF fcol \in Range(mapped) THEN mapped ELSE Append(mapped, fcol)
        n == IF mapped = << >> THEN 0 ELSE Len(df.rows)
    IN  Frame(cols, "",
              [i \in 1..n |->
                  [idx |-> df.rows[i].idx,
                   v |-> [c \in Range(cols) |->
                            IF c = fcol THEN Str(filename)
                            ELSE df.rows[i].v[TempSource(df.columns, c)]]]])

\* Concat with its operands swapped: pd.concat([b, a], ignore_index=True)
Concat_Swapped(a, b) ==
    LET extra == SelectSeq(a.columns, LAMBDA c : c \notin Range(b.columns))
        cols == b.columns \o extra
        all == b.rows \o a.rows
    IN  Frame(cols, "",
              [i \in 1..Len(all) |->
                  [idx |-> i - 1,
                   v |-> [c \in Range(cols) |->
                            IF c \in DOMAIN all[i].v THEN all[i].v[c] ELSE NaN]]])

\* pd.concat([a, b], ignore_index=True): the union of the columns, a's
\* first; the rows of a then those of b, NaN where a frame lacks a column;
\* a fresh index 0..N-1
Concat(a, b) ==
    LET extra == SelectSeq(b.columns, LAMBDA c : c \notin Range(a.columns))
        cols == a.columns \o extra
        all == a.rows \o b.rows
    IN  Frame(cols, "",
              [i \in 1..Len(all) |->
                  [idx |-> i - 1,
                   v |-> [c \in Range(cols) |->
                            IF c \in DOMAIN all[i].v THEN all[i].v[c] ELSE NaN]]])

AddDataToBase(agg, df, filename) == Concat(agg, TempFrame(df, filename))

-----------------------------------------------------------------------------
(* _calucate_price_weight                                                   *)

SetColumn(df, col, cells) ==
    Frame(IF col \in Range(df.columns) THEN df.columns ELSE Append(df.columns, col),
          df.index_name,
          [i \in 1..Len(df.rows) |->
              [idx |-> df.rows[i].idx,
               v |-> [c \in Range(df.columns) \cup {col} |->
                        IF c = col THEN cells[i] ELSE df.rows[i].v[c]]]])

\* num / den rounded to the nearest integer, ties to the even one (den > 0)
RoundHalfEven(num, den) ==
    LET q == num \div den
        r == num - q * den
    IN  IF 2 * r < den THEN q
        ELSE IF 2 * r > den THEN q + 1
        ELSE IF q % 2 = 0 THEN q ELSE q + 1

\* (p / w).round(Decimals) for float64 operands, in thousandths
Rounded(p, w) ==
    LET sgn == IF w < 0 THEN 0 - 1 ELSE 1
    IN  10 * RoundHalfEven(Pow10(Decimals) * p * sgn, w * sgn)

\* one element of price / weight for numeric columns: IEEE division, then
\* round
FloatDiv(p, w) ==
    IF IsNull(p) \/ IsNull(w) THEN NaN
    ELSE IF w.n = 0
         THEN IF p.n = 0 THEN NaN ELSE IF p.n > 0 THEN Inf(1) ELSE Inf(0 - 1)
         ELSE Num(Rounded(p.n, w.n))

\* one element of price / weight for Python numbers, not rounded
PyDiv(p, w) == Num((Scale * p.n) \div w.n)

IsObject(cells) == \E i \in 1..Len(cells) : IsStr(cells[i])

\* the Python division of the pair raises TypeError / ZeroDivisionError
PairTypeError(p, w) == IsStr(p) \/ IsStr(w)
PairZeroDivision(p, w) == ~PairTypeError(p, w) /\ IsNum(w) /\ w.n = 0

\* The frames _calucate_price_weight may leave.  Numeric columns divide
\* element by element and never raise.  When a column holds a str the
\* division runs over Python objects and stops at the first element that
\* raises: ZeroDivisionError is logged; after TypeError pandas repeats the
\* division over the pairs without NaN, and that raises again when such a
\* pair holds a str or a zero weight.  Whatever raises is logged by the
\* handlers and the column is not assigned.  When the repeated division
\* succeeds its result has dtype object, which round() either returns
\* unrounded or rejects with TypeError (logged), depending on the pandas
\* release.
CalcOutcomes(df) ==
    LET P == Column(df, column_names["price"])
        W == Column(df, column_names["weight"])
        out == column_names["price_per_kg"]
        n == Len(df.rows)
        fails(i) == PairTypeError(P[i], W[i]) \/ PairZeroDivision(P[i], W[i])
        first == CHOOSE i \in 1..n : fails(i) /\ \A j \in 1..(i - 1) : ~fails(j)
        masked == {i \in 1..n : ~IsNull(P[i]) /\ ~IsNull(W[i])}
    IN  IF ~IsObject(P) /\ ~IsObject(W)
        THEN {SetColumn(df, out, [i \in 1..n |-> FloatDiv(P[i], W[i])])}
        ELSE IF PairZeroDivision(P[first], W[first]) \/ \E i \in masked : fails(i)
        THEN {df}
        ELSE {df,
              SetColumn(df, out,
                        [i \in 1..n |-> IF i \in masked THEN PyDiv(P[i], W[i]) ELSE NaN])}

-----------------------------------------------------------------------------
(* sort_data                                                                *)

\* a < b for two cells that are not NaN and are both numbers or both str
CellLess(a, b) ==
    IF IsStr(a) THEN StrLess(a.s, b.s)
    ELSE IF a.t = "inf" THEN a.n < 0 /\ ~(b.t = "inf" /\ b.n < 0)
    ELSE IF b.t = "inf" THEN b.n > 0
    ELSE a.n < b.n

\* sort_values raises TypeError: the column holds both str and numbers
SortRaises(df, field) ==
    LET K == Column(df, column_names[field])
    IN  /\ \E i \in 1..Len(K) : IsStr(K[i])
        /\ \E i \in 1..Len(K) : ~IsStr(K[i]) /\ ~IsNull(K[i])

Perms(S) ==
    {q \in [1..Cardinality(S) -> S] :
        \A i, j \in 1..Cardinality(S) : i # j => q[i] # q[j]}

\* SortOutcomes with na_position="first": the rows whose key is NaN lead
SortOutcomes_NaFirst(df, field, order_asc) ==
    LET K == Column(df, column_names[field])
        n == Len(df.rows)
        nans == {i \in 1..n : IsNull(K[i])}
        vals == (1..n) \ nans
        m == Cardinality(vals)
        z == Cardinality(nans)
        nanOrder == CHOOSE q \in Perms(nans) :
                        \A i, j \in 1..z : i < j => q[i] < q[j]
        sorted(q) ==
            \A i \in 1..(m - 1) :
                IF order_asc THEN ~CellLess(K[q[i + 1]], K[q[i]])
                ELSE ~CellLess(K[q[i]], K[q[i + 1]])
    IN  {Frame(df.columns, df.index_name,
               [i \in 1..n |-> df.rows[IF i <= z THEN nanOrder[i] ELSE q[i - z]]]) :
            q \in {r \in Perms(vals) : sorted(r)}}

\* The frames sort_values(by=column_names[field], ascending=order_asc) may
\* return: the rows whose key is not NaN in key order, then the rows whose
\* key is NaN in their present order.  The default kind, quicksort, is not
\* a stable sort, so rows with equal keys come in any order.  Rows keep
\* their index labels.
SortOutcomes(df, field, order_asc) ==
    LET K == Column(df, column_names[field])
        n == Len(df.rows)
        nans == {i \in 1..n : IsNull(K[i])}
        vals == (1..n) \ nans
        m == Cardinality(vals)
        nanOrder == CHOOSE q \in Perms(nans) :
                        \A i, j \in 1..Cardinality(nans) : i < j => q[i] < q[j]
        sorted(q) ==
            \A i \in 1..(m - 1) :
                IF order_asc THEN ~CellLess(K[q[i + 1]], K[q[i]])
                ELSE ~CellLess(K[q[i]], K[q[i + 1]])
    IN  {Frame(df.columns, df.index_name,
               [i \in 1..n |-> df.rows[IF i <= m THEN q[i] ELSE nanOrder[i - m]]]) :
            q \in {r \in Perms(vals) : sorted(r)}}

-----------------------------------------------------------------------------
(* prepare_data                                                             *)

\* index = range(1, len + 1); index.name = "No" (the numero sign)
Reindex(df) ==
    Frame(df.columns, "No",
          [i \in 1..Len(df.rows) |-> [idx |-> i, v |-> df.rows[i].v]])

PrepareOutcomes(df) ==
    {Reindex(s) : s \in UNION {SortOutcomes(c, "price_per_kg", TRUE) :
                                  c \in CalcOutcomes(df)}}

-----------------------------------------------------------------------------
(* find_text and export_to_html.  Each operator gives what the method       *)
(* leaves in self.agregate_price and what it returns or writes.             *)

\* FindText assigning the selection to self.agregate_price
FindText_InPlace(df, text) ==
    LET names == Column(df, column_names["name"])
        usable == \A i \in 1..Len(names) : IsStr(names[i])
        found == IF usable
                 THEN SelectSeq(df.rows,
                                LAMBDA r : RegexSearchI(text, r.v[column_names["name"]].s))
                 ELSE << >>
    IN  [agg |-> Frame(df.columns, df.index_name, found), out |-> found]

\* find_text: the rows whose name matches.  str.contains treats the text as
\* a regular expression and gives NaN for a name that is not a str; .loc
\* rejects a mask that holds NaN (ValueError), and a numeric column has no
\* .str (AttributeError): both are logged and pd.DataFrame() is returned.
FindText(df, text) ==
    LET names == Column(df, column_names["name"])
        usable == \A i \in 1..Len(names) : IsStr(names[i])
    IN  [agg |-> df,
         out |-> IF usable
                 THEN SelectSeq(df.rows,
                                LAMBDA r : RegexSearchI(text, r.v[column_names["name"]].s))
                 ELSE << >>]

\* to_html(index=False): the rows without their index labels
ToHtml(df) == [i \in 1..Len(df.rows) |-> [idx |-> 0, v |-> df.rows[i].v]]

\* export_to_html: writes the table, or logs the IOError of a failed write
ExportToHtml(df, writable) ==
    [agg |-> df, out |-> IF writable THEN ToHtml(df) ELSE << >>]

-----------------------------------------------------------------------------
(* __get_files and load_prices                                              *)

DotCsv == << ".", "c", "s", "v" >>
Price == << "p", "r", "i", "c", "e" >>

\* os.path.join(path, file) and os.path.basename
Join(path, file) == << path, file >>
Basename(p) == p[Len(p)]

\* os.listdir raises FileNotFoundError for a folder that does not exist;
\* __get_files does not catch it, nor does load_prices
GetFilesRaises(folder) == ~folder.exists

\* the files of the listing kept by the filter, in listing order
GetFiles(folder) ==
    SelectSeq(folder.files,
              LAMBDA f : EndsWith(f.name, DotCsv) /\ Contains(Lower(f.name), Price))

\* the loop of load_prices over file_list
RECURSIVE LoadAll(_, _)
LoadAll(agg, file_list) ==
    IF file_list = << >> THEN agg
    ELSE LoadAll(AddDataToBase(agg, ReadCsv(file_list[1]),
                               Basename(Join("prices", file_list[1].name))),
                 Tail(file_list))

LoadPricesOf(agg, folder) == LoadAll(agg, GetFiles(folder))

-----------------------------------------------------------------------------
(* The environments.  A file is its name, whether it can be read, its       *)
(* header row and its data rows of raw text cells; the header names of a    *)
(* file are distinct.                                                       *)

NoFolder == [exists |-> FALSE, files |-> << >>]
NoFile == [name |-> << >>, status |-> "none", columns |-> << >>, rows |-> << >>]

FileRows(folder) ==
    LET RECURSIVE Sum(_)
        Sum(q) == IF q = << >> THEN 0 ELSE Len(q[1].rows) + Sum(Tail(q))
    IN  Sum(folder.files)

File(name, status, cols, rows) ==
    [name |-> name, status |-> status, columns |-> cols, rows |-> rows]

Folder(files) == [exists |-> TRUE, files |-> files]

SeqsUpTo(S, n) == UNION {[1..k -> S] : k \in 0..n}

DistinctNames(files) ==
    \A i, j \in 1..Len(files) : i # j => files[i].name # files[j].name

\* the folders of at most MaxFiles files of S, by their number of data rows
FoldersBySize(S) ==
    LET RECURSIVE Lists(_, _)
        Lists(m, budget) ==
            IF m = 0 THEN {<< >>}
            ELSE UNION {{<< f >> \o rest : rest \in Lists(m - 1, budget - Len(f.rows))} :
                           f \in {g \in S : Len(g.rows) <= budget}}
        all == {Folder(q) : q \in {r \in UNION {Lists(m, MaxRows) : m \in 0..MaxFiles} :
                                      DistinctNames(r)}}
    IN  [k \in 0..MaxRows |->
            {d \in all : FileRows(d) = k} \cup (IF k = 0 THEN {NoFolder} ELSE {})]

FilesBySize(S) == [k \in 0..MaxRows |-> {f \in S : Len(f.rows) = k}]

World(S, texts, sorts) ==
    [folders |-> FoldersBySize(S), files |-> FilesBySize(S),
     texts |-> texts, sorts |-> sorts]

\* The file names in use: two that __get_files keeps ("price.csv" and,
\* by lower(), "PRICE1.csv") and two that it drops ("list.csv" has no
\* marker, "price.CSV" does not end in ".csv").
PriceCsv == Price \o DotCsv
Price1Csv == << "P", "R", "I", "C", "E", "1" >> \o DotCsv
ListCsv == << "l", "i", "s", "t" >> \o DotCsv
PriceUpperCsv == Price \o << ".", "C", "S", "V" >>

\* "derive": prices and weights.  Two files with the columns cena, ves; a
\* row is a price over 8 kg, a zero weight, an empty weight, an empty price
\* or a price that is no number.
PriceWeightRows ==
    { << <<"1">>, <<"8">> >>, << <<"3">>, <<"8">> >>, << <<"1">>, <<"0">> >>,
      << <<"1">>, << >> >>, << <<"x">>, <<"8">> >> }

DeriveFiles ==
    {File(name, "ok", << "cena", "ves" >>, rows) :
        name \in {PriceCsv, Price1Csv}, rows \in SeqsUpTo(PriceWeightRows, MaxRows)}

DeriveWorld ==
    World(DeriveFiles, {<< "x" >>}, {<< "price_per_kg", TRUE >>})

\* "load": folders.  "price.csv" holds rows under mapped headers.
\* "PRICE1.csv" cannot be read, or holds rows under headers none of which
\* is mapped ("Cena" differs from the key "cena" by case), or under two
\* headers of one canonical name around an unmapped one.  "list.csv" and
\* "price.CSV" hold one row.
FullHeader == << "tovar", "cena", "ves" >>
FullRows == { << <<"a">>, <<"1">>, <<"8">> >>, << <<"b">>, <<"3">>, <<"8">> >> }

OtherLayouts ==
    { [columns |-> << "Cena", "kod" >>, row |-> << <<"1">>, <<"5">> >>],
      [columns |-> << "cena", "kod", "roznica" >>, row |-> << <<"1">>, <<"5">>, <<"3">> >>] }

LoadFiles ==
    LET full == {File(PriceCsv, "ok", FullHeader, rows) :
                    rows \in SeqsUpTo(FullRows, MaxRows) \ {<< >>}}
        other == {File(Price1Csv, "ok", l.columns, [i \in 1..k |-> l.row]) :
                     l \in OtherLayouts, k \in 1..MaxRows}
        unreadable == {File(Price1Csv, status, << >>, << >>) :
                          status \in {"notfound", "empty", "error"}}
        dropped == {File(name, "ok", FullHeader, << << <<"a">>, <<"1">>, <<"8">> >> >>) :
                       name \in {ListCsv, PriceUpperCsv}}
    IN  full \cup other \cup unreadable \cup dropped

LoadWorld ==
    World(LoadFiles, {<< "a" >>}, {<< "price_per_kg", TRUE >>, << "price", FALSE >>})

\* "search": names.  One file with the column naimenovanie; a name is
\* empty, a word, a word with a dot, or a number.  The texts are all the
\* strings of at most MaxText characters over a, B and the dot.
NameRows ==
    { << << >> >>, << <<"A", "b">> >>, << <<"b", ".">> >>, << <<"1">> >> }

SearchFiles ==
    {File(PriceCsv, "ok", << "naimenovanie" >>, rows) :
        rows \in SeqsUpTo(NameRows, MaxRows)}

SearchWorld ==
    World(SearchFiles, SeqsUpTo({"a", "B", "."}, MaxText),
          {<< "name", TRUE >>, << "name", FALSE >>})

\* what an environment offers: the folders and files on disk (by their
\* number of data rows), the texts a user types, the sort orders asked for
Offers ==
    CASE world = "derive" -> DeriveWorld
      [] world = "load" -> LoadWorld
      [] world = "search" -> SearchWorld

-----------------------------------------------------------------------------
(* The state machine: a PriceMachine and the calls made on it.              *)

\* __create_base_df
CreateBaseDf ==
    Frame([i \in 1..Len(Fields) |-> column_names[Fields[i]]], "", << >>)

Call(op) ==
    [op |-> op, folder |-> NoFolder, file |-> NoFile, text |-> << >>,
     field |-> "", order_asc |-> TRUE, writable |-> TRUE]

InitWith(w) ==
    /\ world = w
    /\ agregate_price = CreateBaseDf
    /\ call = Call("__init__")
    /\ result = << >>
    /\ raised = "none"

\* pm.load_prices(folder)
LoadPrices ==
    \E k \in 0..(MaxRows - Len(agregate_price.rows)) : \E folder \in Offers.folders[k] :
        /\ call' = [Call("load_prices") EXCEPT !.folder = folder]
        /\ result' = << >>
        /\ IF GetFilesRaises(folder)
           THEN /\ raised' = "FileNotFoundError"
                /\ agregate_price' = agregate_price
           ELSE /\ raised' = "none"
                /\ agregate_price' = LoadPricesOf(agregate_price, folder)
        /\ UNCHANGED world

\* pm._add_data_to_base(df, filename) with the frame read from a file
AddData ==
    \E k \in 0..(MaxRows - Len(agregate_price.rows)) : \E f \in Offers.files[k] :
        /\ call' = [Call("_add_data_to_base") EXCEPT !.file = f]
        /\ result' = << >>
        /\ raised' = "none"
        /\ agregate_price' = AddDataToBase(agregate_price, ReadCsv(f), f.name)
        /\ UNCHANGED world

\* pm._calucate_price_weight()
CalculatePriceWeight ==
    \E out \in CalcOutcomes(agregate_price) :
        /\ call' = Call("_calucate_price_weight")
        /\ result' = << >>
        /\ raised' = "none"
        /\ agregate_price' = out
        /\ UNCHANGED world

\* pm.sort_data(field, order_asc)
SortData ==
    \E srt \in Offers.sorts :
        /\ call' = [Call("sort_data") EXCEPT !.field = srt[1], !.order_asc = srt[2]]
        /\ result' = << >>
        /\ IF SortRaises(agregate_price, srt[1])
           THEN /\ raised' = "TypeError"
                /\ agregate_price' = agregate_price
           ELSE /\ raised' = "none"
                /\ agregate_price' \in SortOutcomes(agregate_price, srt[1], srt[2])
        /\ UNCHANGED world

\* pm.prepare_data()
PrepareData ==
    \E out \in PrepareOutcomes(agregate_price) :
        /\ call' = Call("prepare_data")
        /\ result' = << >>
        /\ raised' = "none"
        /\ agregate_price' = out
        /\ UNCHANGED world

\* pm.find_text(text)
Find ==
    \E text \in Offers.texts :
        LET r == FindText(agregate_price, text) IN
        /\ call' = [Call("find_text") EXCEPT !.text = text]
        /\ result' = r.out
        /\ raised' = "none"
        /\ agregate_price' = r.agg
        /\ UNCHANGED world

\* pm.export_to_html(fname), the write succeeding or not
Export ==
    \E writable \in BOOLEAN :
        LET r == ExportToHtml(agregate_price, writable) IN
        /\ call' = [Call("export_to_html") EXCEPT !.writable = writable]
        /\ result' = r.out
        /\ raised' = "none"
        /\ agregate_price' = r.agg
        /\ UNCHANGED world

Next ==
    \/ LoadPrices
    \/ AddData
    \/ CalculatePriceWeight
    \/ SortData
    \/ PrepareData
    \/ Find
    \/ Export

Spec == InitWith("load") /\ [][Next]_vars
SpecDerive == InitWith("derive") /\ [][Next]_vars
SpecSearch == InitWith("search") /\ [][Next]_vars

-----------------------------------------------------------------------------
(* Properties.                                                              *)

NameCol == column_names["name"]
PriceCol == column_names["price"]
WeightCol == column_names["weight"]
FileCol == column_names["file"]
PerKgCol == column_names["price_per_kg"]

Rows == agregate_price.rows

ZeroOrNull(c) == IsNull(c) \/ (IsNum(c) /\ c.n = 0)

\* C1: after _calucate_price_weight every record whose weight is 0 or null
\* has a null price per kg, and the call raises nothing.
C1_ZeroOrNullWeightGivesNull ==
    call.op = "_calucate_price_weight" =>
        /\ raised = "none"
        /\ \A i \in 1..Len(Rows) :
              ZeroOrNull(Rows[i].v[WeightCol]) => IsNull(Rows[i].v[PerKgCol])

\* C2: _calucate_price_weight treats the records one by one: whatever the
\* other records hold, every record with a numeric price and a numeric
\* non-zero weight gets price / weight rounded to 2 places, and all the
\* records are kept.
C2_RecordsIndependent ==
    [][call'.op = "_calucate_price_weight" =>
          /\ Len(agregate_price'.rows) = Len(Rows)
          /\ \A i \in 1..Len(agregate_price'.rows) :
                LET r == agregate_price'.rows[i].v IN
                (IsNum(r[PriceCol]) /\ IsNum(r[WeightCol]) /\ r[WeightCol].n # 0) =>
                    r[PerKgCol] = Num(Rounded(r[PriceCol].n, r[WeightCol].n))]_vars

\* the listed files that can be read
Readable(file_list) == SelectSeq(file_list, LAMBDA f : ~ReadCsvFails(f))

HasUnreadable(folder) ==
    \E k \in 1..Len(GetFiles(folder)) : ReadCsvFails(GetFiles(folder)[k])

\* the records of a frame in order, without their index labels
Records(df) == [i \in 1..Len(df.rows) |-> df.rows[i].v]

\* C3: load_prices over a folder with a file that cannot be read raises
\* nothing, adds no row of that file, and leaves in the aggregate the
\* records that the load of the other files alone, in the same order,
\* leaves.
C3_UnreadableFileIsolated ==
    [][(call'.op = "load_prices" /\ call'.folder.exists /\ HasUnreadable(call'.folder)) =>
          LET listed == GetFiles(call'.folder)
              new == agregate_price'.rows
          IN  /\ raised' = "none"
              /\ \A i \in (Len(Rows) + 1)..Len(new) :
                    \A k \in 1..Len(listed) :
                        ReadCsvFails(listed[k]) => new[i].v[FileCol] # Str(listed[k].name)
              /\ Records(agregate_price') =
                     Records(LoadAll(agregate_price, Readable(listed)))]_vars

C3_Witness ==
    /\ call.op = "load_prices"
    /\ raised = "none"
    /\ HasUnreadable(call.folder)
    /\ Len(Rows) >= 1
    /\ \E k \in 1..Len(GetFiles(call.folder)) :
          /\ ~ReadCsvFails(GetFiles(call.folder)[k])
          /\ Len(GetFiles(call.folder)[k].rows) >= 1
          /\ Rows[Len(Rows)].v[FileCol] = Str(GetFiles(call.folder)[k].name)

\* s contains sub, letter case ignored
ContainsI(s, sub) == Contains(Lower(s), Lower(sub))

\* C4: find_text returns exactly the records whose name is a text that
\* contains the searched text, letter case ignored; a record with a null
\* name is never returned and does not change what is returned for the
\* others; the call raises nothing.
C4_SearchIsSubstringMatch ==
    call.op = "find_text" =>
        /\ raised = "none"
        /\ result = SelectSeq(Rows,
                              LAMBDA r : IsStr(r.v[NameCol]) /\ ContainsI(r.v[NameCol].s, call.text))

\* C5: after prepare_data the index labels read 1, 2, ..., N in table
\* order, the prices per kg that are not null ascend, and every null one
\* comes after every one that is not null.
C5_OrdinalsAscendingNullsLast ==
    call.op = "prepare_data" =>
        /\ raised = "none"
        /\ \A i \in 1..Len(Rows) : Rows[i].idx = i
        /\ \A i, j \in 1..Len(Rows) :
              i < j =>
                  LET a == Rows[i].v[PerKgCol]
                      b == Rows[j].v[PerKgCol]
                  IN  /\ IsNull(a) => IsNull(b)
                      /\ (~IsNull(a) /\ ~IsNull(b)) => ~CellLess(b, a)

C5_Witness ==
    /\ call.op = "prepare_data"
    /\ Len(Rows) = 2
    /\ IsNum(Rows[1].v[PerKgCol])
    /\ IsNull(Rows[2].v[PerKgCol])
    /\ Rows[1].v[FileCol] = Str(Price1Csv)
    /\ Rows[2].v[FileCol] = Str(PriceCsv)

\* C6: prepare_data called again on the table it has just prepared leaves
\* every record with the same index label, position and price per kg.
C6_PrepareIdempotent ==
    [][(call.op = "prepare_data" /\ call'.op = "prepare_data") =>
          agregate_price' = agregate_price]_vars

\* the cell that the canonical column c of a record made from row i of df
\* holds: that of the last column of df mapped to c, or NaN
Mapped(df, i, c) ==
    IF \E j \in 1..Len(df.columns) : HeaderMap(df.columns[j]) = c
    THEN df.rows[i].v[df.columns[CHOOSE j \in 1..Len(df.columns) :
                                    /\ HeaderMap(df.columns[j]) = c
                                    /\ \A k \in (j + 1)..Len(df.columns) :
                                          HeaderMap(df.columns[k]) # c]]
    ELSE NaN

\* the aggregate after is the aggregate before followed by one record for
\* each of the first n rows of df, in row order
Appended(agg, after, df, filename, n) ==
    /\ after.columns = agg.columns
    /\ Len(after.rows) = Len(agg.rows) + n
    /\ \A i \in 1..Len(agg.rows) : after.rows[i].v = agg.rows[i].v
    /\ \A i \in 1..n :
          LET r == after.rows[Len(agg.rows) + i].v IN
          /\ DOMAIN r = Range(agg.columns)
          /\ r[FileCol] = Str(filename)
          /\ r[PerKgCol] = NaN
          /\ \A c \in {NameCol, PriceCol, WeightCol} :
                r[c] = IF i <= Len(df.rows) THEN Mapped(df, i, c) ELSE NaN

AnyMapped(df) == \E j \in 1..Len(df.columns) : HeaderMap(df.columns[j]) # ""

\* C7 as stated: _add_data_to_base appends one record for every row of the
\* frame, in row order, after the records present: the mapped columns
\* under their canonical names, the unmapped ones dropped, the file name
\* in every record; a row none of whose columns is mapped gives a record
\* with a null name, price and weight.
C7_OneRecordPerRow ==
    [][call'.op = "_add_data_to_base" =>
          LET df == ReadCsv(call'.file) IN
          Appended(agregate_price, agregate_price', df, call'.file.name,
                   Len(df.rows))]_vars

\* C7 as amended: _add_data_to_base appends one record for every row of a
\* frame that has a mapped column, in row order, after the records
\* present: the mapped columns under their canonical names (the last of
\* several columns with one canonical name), the unmapped ones dropped,
\* the file name in every record; a frame none of whose columns is mapped
\* appends nothing.
C7_OneRecordPerRowOfMappedFrame ==
    [][call'.op = "_add_data_to_base" =>
          LET df == ReadCsv(call'.file) IN
          Appended(agregate_price, agregate_price', df, call'.file.name,
                   IF AnyMapped(df) THEN Len(df.rows) ELSE 0)]_vars

C7_Witness ==
    /\ call.op = "_add_data_to_base"
    /\ call.file.columns = << "cena", "kod", "roznica" >>
    /\ Len(call.file.rows) = 1
    /\ Len(Rows) = 2
    /\ Rows[1].v[FileCol] = Str(PriceCsv)
    /\ Rows[2].v[FileCol] = Str(Price1Csv)
    /\ Rows[2].v[PriceCol] = Num(3 * Scale)

\* C8: load_prices over a folder that is empty or does not exist raises
\* nothing and leaves the aggregate as it was; over a folder that exists it
\* loads exactly the files whose name ends in ".csv" and contains "price",
\* letter case ignored.
C8_MissingOrEmptyFolderLoadsNothing ==
    [][call'.op = "load_prices" =>
          LET d == call'.folder
              kept == SelectSeq(d.files,
                                LAMBDA f : EndsWith(f.name, DotCsv) /\ ContainsI(f.name, Price))
          IN  /\ raised' = "none"
              /\ (~d.exists \/ d.files = << >>) => agregate_price' = agregate_price
              /\ d.exists => agregate_price' = LoadAll(agregate_price, kept)]_vars

\* C9: find_text and export_to_html, the write failing or not, leave the
\* aggregate as it was: its records, their order and their index labels.
C9_SearchAndExportReadOnly ==
    [][call'.op \in {"find_text", "export_to_html"} =>
          agregate_price' = agregate_price]_vars

C9_Witness ==
    /\ call.op = "export_to_html"
    /\ ~call.writable
    /\ agregate_price.index_name = "No"
    /\ Len(Rows) = 2
    /\ Rows[1].idx = 2

\* C10: in every state the aggregate has exactly the five canonical
\* columns, and every record has one cell, null when the value is missing,
\* for each of them and no other.
C10_FiveCanonicalColumns ==
    /\ agregate_price.columns = << NameCol, PriceCol, WeightCol, FileCol, PerKgCol >>
    /\ \A i \in 1..Len(Rows) :
          /\ DOMAIN Rows[i].v = {NameCol, PriceCol, WeightCol, FileCol, PerKgCol}
          /\ \A c \in DOMAIN Rows[i].v : Rows[i].v[c].t \in {"nan", "num", "inf", "str"}

C10_Witness ==
    /\ call.op = "_add_data_to_base"
    /\ call.file.columns = << "Cena", "kod" >>
    /\ Len(call.file.rows) >= 1
    /\ Len(Rows) >= 1

=============================================================================
